---- MODULE Spec2Model ----
(***************************************************************************)
(* Verification model of the Signal Forms example gallery.                 *)
(*                                                                         *)
(* Every example component is an independent state machine over its own   *)
(* model signal and the field states the forms engine derives from it.     *)
(* Text values are sequences of one-character strings, so that emptiness,  *)
(* length and equality are computed and not assumed.  The forms engine     *)
(* (required, email, applyWhen, hidden, validateHttp, submit) is modelled  *)
(* at the place where the component invokes it.                            *)
(***************************************************************************)
EXTENDS Integers, Sequences, FiniteSets, TLC

VARIABLES
    feState,        \* fieldErrors: the FieldState handed to the function
    feResult,       \* fieldErrors: the string[] it returned
    signupModel,    \* SimpleSignup.signupModel
    signupTouched,  \* SimpleSignup: touched() of the three fields
    submitted,      \* SimpleSignup.submitted
    signupActive,   \* SimpleSignup: document.activeElement
    orderModel,     \* PizzaOrder.orderModel
    orderTouched,   \* PizzaOrder: touched() of the validated fields
    orderSubmitted, \* PizzaOrder.submittedValue: <<>> is null, <<v>> a value
    orderDirty,     \* PizzaOrder: a change detection pass is scheduled
    orderView,      \* PizzaOrder: what the last change detection rendered
    locationModel,      \* LocationSelect.locationModel
    locationTouched,    \* LocationSelect: touched() of the three fields
    locationSubmitted,  \* LocationSelect.submittedValue: <<>> is null
    locationActive,     \* LocationSelect: document.activeElement
    participants,       \* EventRegistration.registrationModel().participants
    participantTouched, \* EventRegistration: touched() of participants[i]
    eventSubmitted,     \* EventRegistration.submittedValue: <<>> is null
    profileModel,       \* ProfileEdit.profileModel
    profileTouched,     \* ProfileEdit: touched() of the three fields
    profileSubmitted,   \* ProfileEdit.submittedValue: <<>> is null
    usernameCheck,      \* ProfileEdit: the validateHttp resource of username
    settingsModel,      \* Settings.settingsModel
    settingsDirty,      \* Settings: dirty() of the three fields
    settingsTouched,    \* Settings: touched() of the three fields
    settingsSubmitted,  \* Settings.submitted
    expiryValue,        \* ExpiryDateInput.value
    expiryMonth,        \* ExpiryDateInput.month
    expiryYear,         \* ExpiryDateInput.year
    starValue,          \* StarRating.value
    hoveredStar,        \* StarRating.hoveredStar
    starFocus,          \* StarRating: the focused star button, 0 for none
    cityControl,        \* CitySearch: the text of the input (control value of city)
    searchCity,         \* CitySearch.searchModel().city
    showSuggestions,    \* CitySearch.showSuggestions
    cityFocused,        \* CitySearch: the input has the focus
    cityBlurTimer,      \* CitySearch: the setTimeout of onBlur is pending
    cityStatus,         \* CitySearch.suggestions.status()
    citySuggestions,    \* CitySearch.suggestions.value(): <<>> is undefined
    cityInFlight        \* requests to /api/cities not answered yet

feVars == <<feState, feResult>>
signupVars == <<signupModel, signupTouched, submitted, signupActive>>
pizzaVars == <<orderModel, orderTouched, orderSubmitted, orderDirty, orderView>>
locationVars == <<locationModel, locationTouched, locationSubmitted, locationActive>>
eventVars == <<participants, participantTouched, eventSubmitted>>
profileVars == <<profileModel, profileTouched, profileSubmitted, usernameCheck>>
settingsVars == <<settingsModel, settingsDirty, settingsTouched, settingsSubmitted>>
expiryVars == <<expiryValue, expiryMonth, expiryYear>>
starVars == <<starValue, hoveredStar, starFocus>>
cityVars == <<cityControl, searchCity, showSuggestions, cityFocused, cityBlurTimer, cityStatus, citySuggestions, cityInFlight>>
vars == <<feVars, signupVars, pizzaVars, locationVars, eventVars, profileVars, settingsVars, expiryVars, starVars, cityVars>>

notFe == <<signupVars, pizzaVars, locationVars, eventVars, profileVars, settingsVars, expiryVars, starVars, cityVars>>
notSignup == <<feVars, pizzaVars, locationVars, eventVars, profileVars, settingsVars, expiryVars, starVars, cityVars>>
notPizza == <<feVars, signupVars, locationVars, eventVars, profileVars, settingsVars, expiryVars, starVars, cityVars>>
notLocation == <<feVars, signupVars, pizzaVars, eventVars, profileVars, settingsVars, expiryVars, starVars, cityVars>>
notEvent == <<feVars, signupVars, pizzaVars, locationVars, profileVars, settingsVars, expiryVars, starVars, cityVars>>
notProfile == <<feVars, signupVars, pizzaVars, locationVars, eventVars, settingsVars, expiryVars, starVars, cityVars>>
notSettings == <<feVars, signupVars, pizzaVars, locationVars, eventVars, profileVars, expiryVars, starVars, cityVars>>
notExpiry == <<feVars, signupVars, pizzaVars, locationVars, eventVars, profileVars, settingsVars, starVars, cityVars>>
notStar == <<feVars, signupVars, pizzaVars, locationVars, eventVars, profileVars, settingsVars, expiryVars, cityVars>>
notCity == <<feVars, signupVars, pizzaVars, locationVars, eventVars, profileVars, settingsVars, expiryVars, starVars>>

(***************************************************************************)
(* Bounds of the model.                                                    *)
(***************************************************************************)
MaxErrors == 2      \* length of an errors() list handed to fieldErrors
MaxEmailLen == 3    \* characters typed into the email input
MaxPwLen == 2       \* characters typed into a password input
MaxTextLen == 2     \* characters typed into any other text input
MaxParticipants == 3 \* rows of the EventRegistration form
MaxNameLen == 2     \* characters typed into a participant input
MaxRawLen == 3      \* characters carried by an input event of ExpiryDateInput
MaxCityLen == 2     \* characters of a text typed into the CitySearch input
MaxAborted == 1     \* aborted /api/cities requests whose answer is on the way

(***************************************************************************)
(* Text helpers.                                                           *)
(***************************************************************************)
SeqsUpTo(S, n) == UNION {[1..k -> S] : k \in 0..n}

DropLast(s) == SubSeq(s, 1, Len(s) - 1)

\* The forms engine's notion of an empty value for required(): ''.
IsEmpty(s) == s = <<>>

(***************************************************************************)
(* lib/field-errors.ts                                                     *)
(*                                                                         *)
(* A validation error is [kind, message] where message is a sequence of    *)
(* zero or one strings: <<>> is an error without a message.                *)
(***************************************************************************)
Err(kind, msg) == [kind |-> kind, message |-> <<msg>>]

ErrNoMessage(kind) == [kind |-> kind, message |-> <<>>]

\* e.message ?? e.kind
MessageOrKind(e) == IF e.message /= <<>> THEN e.message[1] ELSE e.kind

\* A slip: the touched() test is left out.
fieldErrorsUntouched(touched, invalid, errors) ==
    IF invalid
        THEN [i \in 1..Len(errors) |-> MessageOrKind(errors[i])]
        ELSE <<>>

fieldErrors(touched, invalid, errors) ==
    IF touched /\ invalid
        THEN [i \in 1..Len(errors) |-> MessageOrKind(errors[i])]
        ELSE <<>>

FeKinds == {"required", "email"}
FeMessages == {"", "Email is required"}
FeErrorValues ==
    {Err(k, m) : k \in FeKinds, m \in FeMessages} \cup {ErrNoMessage(k) : k \in FeKinds}

FeInit ==
    /\ feState = [touched |-> FALSE, invalid |-> FALSE, errors |-> <<>>]
    /\ feResult = <<>>

\* One evaluation of fieldErrors on an arbitrary field state.
FieldErrorsCall ==
    /\ \E t \in BOOLEAN, inv \in BOOLEAN, errs \in SeqsUpTo(FeErrorValues, MaxErrors) :
          /\ feState' = [touched |-> t, invalid |-> inv, errors |-> errs]
          /\ feResult' = fieldErrors(t, inv, errs)
    /\ UNCHANGED notFe

(***************************************************************************)
(* examples/simple-signup.ts                                               *)
(***************************************************************************)
SignupFields == <<"email", "password", "confirmPassword">>
SignupFieldSet == {SignupFields[i] : i \in 1..Len(SignupFields)}

EmailChars == {"a", "@", "."}
PwChars == {"p"}

SignupChars(f) == IF f = "email" THEN EmailChars ELSE PwChars
SignupMaxLen(f) == IF f = "email" THEN MaxEmailLen ELSE MaxPwLen

\* Positions of c in s.
Positions(s, c) == {i \in 1..Len(s) : s[i] = c}

\* atom(\.atom)* over the typed alphabet: non-empty, no '@', and no dot at
\* either end or next to another dot.
DotAtoms(s) ==
    /\ s /= <<>>
    /\ Positions(s, "@") = {}
    /\ s[1] /= "."
    /\ s[Len(s)] /= "."
    /\ \A i \in 1..(Len(s) - 1) : ~(s[i] = "." /\ s[i + 1] = ".")

\* The engine's email pattern restricted to the typed alphabet: exactly one
\* '@' with a dot-atom on each side.
EmailWellFormed(s) ==
    /\ Cardinality(Positions(s, "@")) = 1
    /\ LET at == CHOOSE i \in Positions(s, "@") : TRUE
       IN  /\ DotAtoms(SubSeq(s, 1, at - 1))
           /\ DotAtoms(SubSeq(s, at + 1, Len(s)))

\* required(schema.email) then email(schema.email); email() accepts the
\* empty value and leaves it to required().
EmailErrors(m) ==
    (IF IsEmpty(m.email) THEN <<Err("required", "Email is required")>> ELSE <<>>)
    \o (IF ~IsEmpty(m.email) /\ ~EmailWellFormed(m.email)
          THEN <<Err("email", "Please enter a valid email")>> ELSE <<>>)

PasswordErrors(m) ==
    IF IsEmpty(m.password) THEN <<Err("required", "Password is required")>> ELSE <<>>

\* required(schema.confirmPassword) then validate(value() !== valueOf(password)).
ConfirmPasswordErrors(m) ==
    (IF IsEmpty(m.confirmPassword)
        THEN <<Err("required", "Please confirm your password")>> ELSE <<>>)
    \o (IF m.confirmPassword /= m.password
          THEN <<Err("passwordMismatch", "Passwords do not match")>> ELSE <<>>)

SignupErrors(m, f) ==
    CASE f = "email" -> EmailErrors(m)
      [] f = "password" -> PasswordErrors(m)
      [] f = "confirmPassword" -> ConfirmPasswordErrors(m)

SignupFieldInvalid(m, f) == SignupErrors(m, f) /= <<>>

\* signupForm().invalid(): some field of the tree is invalid.
SignupFormInvalid(m) == \E f \in SignupFieldSet : SignupFieldInvalid(m, f)

\* emailErrors / passwordErrors / confirmPasswordErrors
SignupShownErrors(f) ==
    fieldErrors(signupTouched[f], SignupFieldInvalid(signupModel, f),
                SignupErrors(signupModel, f))

\* A slip: the last invalid field is picked.
SignupLastInvalid(m) ==
    IF SignupFormInvalid(m)
        THEN SignupFields[CHOOSE i \in 1..Len(SignupFields) :
                 /\ SignupFieldInvalid(m, SignupFields[i])
                 /\ \A j \in (i + 1)..Len(SignupFields) :
                        ~SignupFieldInvalid(m, SignupFields[j])]
        ELSE "none"

\* fields.find((field) => field().invalid())
SignupFirstInvalid(m) ==
    IF SignupFormInvalid(m)
        THEN SignupFields[CHOOSE i \in 1..Len(SignupFields) :
                 /\ SignupFieldInvalid(m, SignupFields[i])
                 /\ \A j \in 1..(i - 1) : ~SignupFieldInvalid(m, SignupFields[j])]
        ELSE "none"

\* Focus leaving a bound input fires blur, which marks that field touched.
SignupBlurred(touched, from, to) ==
    IF from \in SignupFieldSet /\ from /= to
        THEN [touched EXCEPT ![from] = TRUE]
        ELSE touched

SignupInit ==
    /\ signupModel = [email |-> <<>>, password |-> <<>>, confirmPassword |-> <<>>]
    /\ signupTouched = [f \in SignupFieldSet |-> FALSE]
    /\ submitted = FALSE
    /\ signupActive = "body"

\* The user clicks or tabs into one of the inputs.
SignupFocus(f) ==
    /\ signupActive /= f
    /\ signupActive' = f
    /\ signupTouched' = SignupBlurred(signupTouched, signupActive, f)
    /\ UNCHANGED <<signupModel, submitted>>
    /\ UNCHANGED notSignup

\* One keystroke in the focused input: [formField] writes the model.
SignupType(f, c) ==
    /\ signupActive = f
    /\ Len(signupModel[f]) < SignupMaxLen(f)
    /\ signupModel' = [signupModel EXCEPT ![f] = Append(@, c)]
    /\ UNCHANGED <<signupTouched, submitted, signupActive>>
    /\ UNCHANGED notSignup

SignupBackspace(f) ==
    /\ signupActive = f
    /\ signupModel[f] /= <<>>
    /\ signupModel' = [signupModel EXCEPT ![f] = DropLast(@)]
    /\ UNCHANGED <<signupTouched, submitted, signupActive>>
    /\ UNCHANGED notSignup

\* submit(): mark every field touched, run the action only when the form is
\* not invalid.  A slip: the action runs whatever the validity.
SignupSubmittedAfterAlways(m) == TRUE

SignupSubmittedAfter(m) == IF SignupFormInvalid(m) THEN submitted ELSE TRUE

\* onSubmit, reached with the focus on `from`: the Sign Up button when it was
\* clicked, the current input when Enter was pressed in it.
SignupOnSubmitFrom(from) ==
    /\ signupTouched' = [f \in SignupFieldSet |-> TRUE]
    /\ submitted' = SignupSubmittedAfter(signupModel)
    /\ signupActive' =
          IF SignupFirstInvalid(signupModel) /= "none"
              THEN SignupFirstInvalid(signupModel)
              ELSE from
    /\ UNCHANGED signupModel
    /\ UNCHANGED notSignup

SignupClickSubmit == SignupOnSubmitFrom("button")

SignupEnterSubmit ==
    /\ signupActive \in SignupFieldSet
    /\ SignupOnSubmitFrom(signupActive)

SignupOnSubmit == SignupClickSubmit \/ SignupEnterSubmit

SignupNext ==
    \/ \E f \in SignupFieldSet : SignupFocus(f)
    \/ \E f \in SignupFieldSet : \E c \in SignupChars(f) : SignupType(f, c)
    \/ \E f \in SignupFieldSet : SignupBackspace(f)
    \/ SignupClickSubmit
    \/ SignupEnterSubmit

(***************************************************************************)
(* examples/pizza-order.ts                                                 *)
(***************************************************************************)
OrderTypes == {"togo", "delivery"}
PaymentMethods == {"", "cash", "card"}
PizzaTouchedFields == {"customerName", "deliveryAddress", "paymentMethod"}
PizzaTextChars == {"x"}

\* A slip: the predicate of hidden() is inverted.
PizzaAddressHiddenInverted(m) == m.orderType = "delivery"

\* hidden(schema.deliveryAddress, valueOf(orderType) === 'togo')
PizzaAddressHidden(m) == m.orderType = "togo"

PizzaCustomerNameErrors(m) ==
    IF IsEmpty(m.customerName)
        THEN <<Err("required", "Customer name is required")>> ELSE <<>>

\* The select value '' is the empty value of required().
PizzaPaymentMethodErrors(m) ==
    IF m.paymentMethod = ""
        THEN <<Err("required", "Payment method is required")>> ELSE <<>>

\* A slip: required() is applied to the address unconditionally.
PizzaDeliveryAddressErrorsAlways(m) ==
    IF IsEmpty(m.deliveryAddress)
        THEN <<Err("required", "Delivery address is required")>> ELSE <<>>

\* applyWhen(deliveryAddress, orderType === 'delivery', required); a hidden
\* field is not validated at all.  (The message of the source is Japanese.)
PizzaDeliveryAddressErrors(m) ==
    IF PizzaAddressHidden(m)
        THEN <<>>
        ELSE IF m.orderType = "delivery" /\ IsEmpty(m.deliveryAddress)
                THEN <<Err("required", "Delivery address is required")>>
                ELSE <<>>

\* orderForm().invalid()
PizzaFormInvalid(m) ==
    \/ PizzaCustomerNameErrors(m) /= <<>>
    \/ PizzaPaymentMethodErrors(m) /= <<>>
    \/ PizzaDeliveryAddressErrors(m) /= <<>>

\* The template: the address input sits under @if (!hidden()), and the
\* payment select offers '' and cash only under orderType === 'togo'.
PizzaRender(m) ==
    [addressShown |-> ~PizzaAddressHidden(m),
     paymentOptions |-> IF m.orderType = "togo" THEN {"", "cash", "card"} ELSE {"card"}]

\* A slip: the effect does not pin the payment method.
PizzaEffectNone(m) == m

\* The constructor effect: under delivery the payment method is set to card.
PizzaEffect(m) ==
    IF m.orderType = "delivery" /\ m.paymentMethod /= "card"
        THEN [m EXCEPT !.paymentMethod = "card"]
        ELSE m

PizzaInit ==
    /\ orderModel = [customerName |-> <<>>, orderType |-> "togo",
                     deliveryAddress |-> <<>>, paymentMethod |-> ""]
    /\ orderTouched = [f \in PizzaTouchedFields |-> FALSE]
    /\ orderSubmitted = <<>>
    /\ orderDirty = FALSE
    /\ orderView = PizzaRender(orderModel)

\* The text inputs the rendered DOM holds.
PizzaTextShown(f) == f = "customerName" \/ (f = "deliveryAddress" /\ orderView.addressShown)

\* One keystroke in a rendered text input.
PizzaType(f, c) ==
    /\ PizzaTextShown(f)
    /\ Len(orderModel[f]) < MaxTextLen
    /\ orderModel' = [orderModel EXCEPT ![f] = Append(@, c)]
    /\ orderDirty' = TRUE
    /\ UNCHANGED <<orderTouched, orderSubmitted, orderView>>
    /\ UNCHANGED notPizza

PizzaBackspace(f) ==
    /\ PizzaTextShown(f)
    /\ orderModel[f] /= <<>>
    /\ orderModel' = [orderModel EXCEPT ![f] = DropLast(@)]
    /\ orderDirty' = TRUE
    /\ UNCHANGED <<orderTouched, orderSubmitted, orderView>>
    /\ UNCHANGED notPizza

\* The user picks another option of the order type select.
PizzaSelectOrderType(t) ==
    /\ t /= orderModel.orderType
    /\ orderModel' = [orderModel EXCEPT !.orderType = t]
    /\ orderDirty' = TRUE
    /\ UNCHANGED <<orderTouched, orderSubmitted, orderView>>
    /\ UNCHANGED notPizza

\* The user picks another of the rendered options of the payment select.
PizzaSelectPayment(p) ==
    /\ p \in orderView.paymentOptions
    /\ p /= orderModel.paymentMethod
    /\ orderModel' = [orderModel EXCEPT !.paymentMethod = p]
    /\ orderDirty' = TRUE
    /\ UNCHANGED <<orderTouched, orderSubmitted, orderView>>
    /\ UNCHANGED notPizza

\* Focus leaves a rendered control of a validated field.
PizzaBlur(f) ==
    /\ f = "deliveryAddress" => orderView.addressShown
    /\ ~orderTouched[f]
    /\ orderTouched' = [orderTouched EXCEPT ![f] = TRUE]
    /\ orderDirty' = TRUE
    /\ UNCHANGED <<orderModel, orderSubmitted, orderView>>
    /\ UNCHANGED notPizza

\* A change detection pass: the effect runs until it settles, then the
\* template is rendered from the model.
PizzaTick ==
    /\ orderDirty
    /\ orderModel' = PizzaEffect(orderModel)
    /\ orderView' = PizzaRender(orderModel')
    /\ orderDirty' = FALSE
    /\ UNCHANGED <<orderTouched, orderSubmitted>>
    /\ UNCHANGED notPizza

\* onSubmit: submit() marks every field touched and runs the action only
\* when the form is not invalid.
PizzaOnSubmit ==
    /\ orderTouched' = [f \in PizzaTouchedFields |-> TRUE]
    /\ orderSubmitted' =
          IF PizzaFormInvalid(orderModel) THEN orderSubmitted ELSE <<orderModel>>
    /\ orderDirty' = TRUE
    /\ UNCHANGED <<orderModel, orderView>>
    /\ UNCHANGED notPizza

PizzaNext ==
    \/ \E f \in {"customerName", "deliveryAddress"} :
          \E c \in PizzaTextChars : PizzaType(f, c)
    \/ \E f \in {"customerName", "deliveryAddress"} : PizzaBackspace(f)
    \/ \E t \in OrderTypes : PizzaSelectOrderType(t)
    \/ \E p \in PaymentMethods : PizzaSelectPayment(p)
    \/ \E f \in PizzaTouchedFields : PizzaBlur(f)
    \/ PizzaTick
    \/ PizzaOnSubmit

(***************************************************************************)
(* examples/location-select.ts                                             *)
(***************************************************************************)
LocationFields == <<"region", "country", "city">>
LocationFieldSet == {LocationFields[i] : i \in 1..Len(LocationFields)}

\* LOCATION_DATA
RegionIds == {"asia", "europe"}

CountryIds(r) ==
    CASE r = "asia" -> {"japan", "korea"}
      [] r = "europe" -> {"france", "germany"}
      [] OTHER -> {}

CityIds(c) ==
    CASE c = "japan" -> {"tokyo", "osaka", "kyoto"}
      [] c = "korea" -> {"seoul", "busan"}
      [] c = "france" -> {"paris", "lyon"}
      [] c = "germany" -> {"berlin", "munich"}
      [] OTHER -> {}

\* availableCountries: the countries of the selected region.
availableCountries(m) == IF m.region = "" THEN {} ELSE CountryIds(m.region)

\* availableCities: the cities of the selected country, looked up among the
\* available countries.
availableCities(m) ==
    IF m.country = "" THEN {}
    ELSE IF m.country \in availableCountries(m) THEN CityIds(m.country) ELSE {}

\* The options of each select: the placeholder '' and the available ids.
LocationOptions(m, f) ==
    {""} \cup (CASE f = "region" -> RegionIds
                 [] f = "country" -> availableCountries(m)
                 [] f = "city" -> availableCities(m))

\* onRegionChange: update((v) => ({...v, country: '', city: ''}))
onRegionChange(m) == [m EXCEPT !.country = "", !.city = ""]

\* A slip: the country handler resets nothing.
onCountryChangeNone(m) == m

\* onCountryChange: update((v) => ({...v, city: ''}))
onCountryChange(m) == [m EXCEPT !.city = ""]

\* The (change) handler bound on each select; the city select has none.
LocationChangeHandler(m, f) ==
    CASE f = "region" -> onRegionChange(m)
      [] f = "country" -> onCountryChange(m)
      [] f = "city" -> m

\* required() on each of the three fields.
LocationFieldInvalid(m, f) == m[f] = ""

LocationFormInvalid(m) == \E f \in LocationFieldSet : LocationFieldInvalid(m, f)

\* fields.find((field) => field().invalid())
LocationFirstInvalid(m) ==
    IF LocationFormInvalid(m)
        THEN LocationFields[CHOOSE i \in 1..Len(LocationFields) :
                 /\ LocationFieldInvalid(m, LocationFields[i])
                 /\ \A j \in 1..(i - 1) : ~LocationFieldInvalid(m, LocationFields[j])]
        ELSE "none"

LocationBlurred(touched, from, to) ==
    IF from \in LocationFieldSet /\ from /= to
        THEN [touched EXCEPT ![from] = TRUE]
        ELSE touched

LocationInit ==
    /\ locationModel = [region |-> "", country |-> "", city |-> ""]
    /\ locationTouched = [f \in LocationFieldSet |-> FALSE]
    /\ locationSubmitted = <<>>
    /\ locationActive = "body"

\* The user picks another option of select f: [formField] writes the value
\* on the input event, then the select's (change) handler runs.
LocationSelectOption(f, v) ==
    /\ v \in LocationOptions(locationModel, f)
    /\ v /= locationModel[f]
    /\ locationModel' = LocationChangeHandler([locationModel EXCEPT ![f] = v], f)
    /\ locationActive' = f
    /\ locationTouched' = LocationBlurred(locationTouched, locationActive, f)
    /\ UNCHANGED locationSubmitted
    /\ UNCHANGED notLocation

LocationSelectRegion(v) == LocationSelectOption("region", v)

LocationSelectCountry(v) == LocationSelectOption("country", v)

LocationSelectCity(v) == LocationSelectOption("city", v)

\* The user moves the focus to a select without changing it.
LocationFocus(f) ==
    /\ locationActive /= f
    /\ locationActive' = f
    /\ locationTouched' = LocationBlurred(locationTouched, locationActive, f)
    /\ UNCHANGED <<locationModel, locationSubmitted>>
    /\ UNCHANGED notLocation

\* onSubmit after a click on the Submit button.
LocationOnSubmit ==
    /\ locationTouched' = [f \in LocationFieldSet |-> TRUE]
    /\ locationSubmitted' =
          IF LocationFormInvalid(locationModel) THEN locationSubmitted
          ELSE <<locationModel>>
    /\ locationActive' =
          IF LocationFirstInvalid(locationModel) /= "none"
              THEN LocationFirstInvalid(locationModel)
              ELSE "button"
    /\ UNCHANGED locationModel
    /\ UNCHANGED notLocation

AllLocationIds ==
    {""} \cup RegionIds \cup UNION {CountryIds(r) : r \in RegionIds}
         \cup UNION {CityIds(c) : c \in UNION {CountryIds(r) : r \in RegionIds}}

LocationNext ==
    \/ \E v \in AllLocationIds : LocationSelectRegion(v)
    \/ \E v \in AllLocationIds : LocationSelectCountry(v)
    \/ \E v \in AllLocationIds : LocationSelectCity(v)
    \/ \E f \in LocationFieldSet : LocationFocus(f)
    \/ LocationOnSubmit

(***************************************************************************)
(* examples/event-registration.ts                                          *)
(*                                                                         *)
(* Sequences are 1-based: row i of the model is index i - 1 of the source. *)
(***************************************************************************)
NameChars == {"a"}

Indices(s) == 1..Len(s)

\* array.filter((_, i) => i !== index)
RemoveAt(s, i) == [j \in 1..(Len(s) - 1) |-> IF j < i THEN s[j] ELSE s[j + 1]]

\* A slip: the filter keeps the wrong side (the last entry is dropped).
removeParticipantLast(ps, i) == SubSeq(ps, 1, Len(ps) - 1)

\* removeParticipant(index)
removeParticipant(ps, i) == RemoveAt(ps, i)

\* addParticipant: [...current.participants, '']
addParticipant(ps) == Append(ps, <<>>)

\* A slip: the remove button is rendered on a single row as well.
RemoveOfferedAlways(ps) == TRUE

\* @if (registrationModel().participants.length > 1) around the remove button
RemoveOffered(ps) == Len(ps) > 1

\* A slip: required() is applied to the first entry only.
ParticipantInvalidFirstOnly(ps, i) == i = 1 /\ IsEmpty(ps[i])

\* applyEach(schema.participants, required)
ParticipantInvalid(ps, i) == IsEmpty(ps[i])

EventFormInvalid(ps) == \E i \in Indices(ps) : ParticipantInvalid(ps, i)

\* participantErrors
participantErrors(ps, touched) ==
    [i \in Indices(ps) |->
        fieldErrors(touched[i], ParticipantInvalid(ps, i),
                    IF ParticipantInvalid(ps, i)
                        THEN <<Err("required", "Participant name is required")>>
                        ELSE <<>>)]

EventInit ==
    /\ participants = <<<<>>>>
    /\ participantTouched = <<FALSE>>
    /\ eventSubmitted = <<>>

\* Click on "+ add participant".  The field of the new index is created
\* untouched.
EventAddParticipant ==
    /\ Len(participants) < MaxParticipants
    /\ participants' = addParticipant(participants)
    /\ participantTouched' =
          [i \in Indices(participants') |->
              IF i \in Indices(participantTouched) THEN participantTouched[i] ELSE FALSE]
    /\ UNCHANGED eventSubmitted
    /\ UNCHANGED notEvent

\* Click on the remove button of row i.  The fields of an array of strings
\* are kept per index, so the field of the last index is the one dropped.
EventClickRemove(i) ==
    /\ i \in Indices(participants)
    /\ RemoveOffered(participants)
    /\ participants' = removeParticipant(participants, i)
    /\ participantTouched' =
          [j \in Indices(participants') |->
              IF j \in Indices(participantTouched) THEN participantTouched[j] ELSE FALSE]
    /\ UNCHANGED eventSubmitted
    /\ UNCHANGED notEvent

\* One keystroke in the input of row i.
EventType(i, c) ==
    /\ i \in Indices(participants)
    /\ Len(participants[i]) < MaxNameLen
    /\ participants' = [participants EXCEPT ![i] = Append(@, c)]
    /\ UNCHANGED <<participantTouched, eventSubmitted>>
    /\ UNCHANGED notEvent

EventBackspace(i) ==
    /\ i \in Indices(participants)
    /\ participants[i] /= <<>>
    /\ participants' = [participants EXCEPT ![i] = DropLast(@)]
    /\ UNCHANGED <<participantTouched, eventSubmitted>>
    /\ UNCHANGED notEvent

\* Focus leaves the input of row i.
EventBlur(i) ==
    /\ i \in Indices(participants)
    /\ ~participantTouched[i]
    /\ participantTouched' = [participantTouched EXCEPT ![i] = TRUE]
    /\ UNCHANGED <<participants, eventSubmitted>>
    /\ UNCHANGED notEvent

\* onSubmit: submit() marks every field touched and runs the action only
\* when no entry is invalid.
EventOnSubmit ==
    /\ participantTouched' = [i \in Indices(participants) |-> TRUE]
    /\ eventSubmitted' =
          IF EventFormInvalid(participants) THEN eventSubmitted ELSE <<participants>>
    /\ UNCHANGED participants
    /\ UNCHANGED notEvent

EventNext ==
    \/ EventAddParticipant
    \/ \E i \in 1..MaxParticipants : EventClickRemove(i)
    \/ \E i \in 1..MaxParticipants : \E c \in NameChars : EventType(i, c)
    \/ \E i \in 1..MaxParticipants : EventBackspace(i)
    \/ \E i \in 1..MaxParticipants : EventBlur(i)
    \/ EventOnSubmit

(***************************************************************************)
(* examples/profile-edit.ts and the /api/check-username handler of         *)
(* mocks/handlers.ts                                                       *)
(***************************************************************************)
MinUsernameLen == 3
MaxUsernameLen == 20
MaxDisplayNameLen == 50
MaxBioLen == 200
HttpOk == 200
HttpBadRequest == 400

Rep(c, n) == [i \in 1..n |-> c]

\* The values typed or pasted into the username input: empty, too short,
\* with a character outside the pattern, taken, taken up to case, free at
\* both length limits, and too long.
UsernameInputs ==
    { <<>>,
      <<"a", "b">>,
      <<"a", "@", "c">>,
      <<"a", "d", "m", "i", "n">>,
      <<"A", "d", "m", "i", "n">>,
      <<"n", "e", "o">>,
      Rep("u", MaxUsernameLen),
      Rep("u", MaxUsernameLen + 1) }

DisplayNameInputs == { <<>>, <<"N", "e", "o">>, Rep("x", MaxDisplayNameLen + 1) }

BioInputs == { <<>>, Rep("x", MaxBioLen), Rep("x", MaxBioLen + 1) }

\* existingUsernames
existingUsernames ==
    { <<"a", "d", "m", "i", "n">>, <<"u", "s", "e", "r">>, <<"t", "e", "s", "t">>,
      <<"j", "o", "h", "n">>, <<"j", "a", "n", "e">> }

\* String.prototype.toLowerCase on the characters in use.
LowerChar(c) ==
    CASE c = "A" -> "a" [] c = "N" -> "n" [] c = "T" -> "t" [] c = "O" -> "o"
      [] c = "P" -> "p" [] c = "B" -> "b" [] OTHER -> c

toLowerCase(s) == [i \in 1..Len(s) |-> LowerChar(s[i])]

\* [a-zA-Z0-9_] on the characters in use.
WordChars ==
    {"a", "b", "c", "d", "e", "i", "m", "n", "o", "u", "x", "A", "N", "_"}

\* /^[a-zA-Z0-9_]+$/
MatchesUsernamePattern(s) == s /= <<>> /\ \A i \in 1..Len(s) : s[i] \in WordChars

\* required, minLength(3), maxLength(20), pattern on username; the length
\* and pattern validators pass the empty value.
UsernameSyncErrors(u) ==
    (IF IsEmpty(u) THEN <<Err("required", "Username is required")>> ELSE <<>>)
    \o (IF ~IsEmpty(u) /\ Len(u) < MinUsernameLen
          THEN <<Err("minLength", "Username must be at least 3 characters")>> ELSE <<>>)
    \o (IF Len(u) > MaxUsernameLen
          THEN <<Err("maxLength", "Username must be at most 20 characters")>> ELSE <<>>)
    \o (IF ~IsEmpty(u) /\ ~MatchesUsernamePattern(u)
          THEN <<Err("pattern", "Username can only contain alphanumeric characters and underscores")>>
          ELSE <<>>)

DisplayNameErrors(d) ==
    (IF IsEmpty(d) THEN <<Err("required", "Display name is required")>> ELSE <<>>)
    \o (IF Len(d) > MaxDisplayNameLen
          THEN <<Err("maxLength", "Display name must be at most 50 characters")>> ELSE <<>>)

BioErrors(b) ==
    IF Len(b) > MaxBioLen
        THEN <<Err("maxLength", "Bio must be at most 200 characters")>> ELSE <<>>

\* GET /api/check-username
CheckUsernameHandler(username) ==
    IF username = <<>>
        THEN [status |-> HttpBadRequest, taken |-> FALSE]
        ELSE [status |-> HttpOk, taken |-> toLowerCase(username) \in existingUsernames]

\* A slip: onSuccess ignores the answer.
onSuccessIgnoresTaken(response) == <<>>

\* validateHttp onSuccess
onSuccess(response) ==
    IF response.taken
        THEN <<Err("usernameTaken", "This username is already taken")>>
        ELSE <<>>

\* A slip: onError reports nothing.
onErrorNone == <<>>

\* validateHttp onError
onError == <<Err("networkError", "Could not verify username availability")>>

\* The resource behind validateHttp: it has a request only when the
\* synchronous validators of the field pass, and a new request replaces the
\* one in flight.
\* `username` is the parameter of the request made last.
CheckIdle == [status |-> "idle", username |-> <<>>, errors |-> <<>>]

\* A slip: the request is made whatever the synchronous validators say.
CheckForUnconditional(u) == [status |-> "loading", username |-> u, errors |-> <<>>]

CheckFor(u) ==
    IF UsernameSyncErrors(u) = <<>>
        THEN [status |-> "loading", username |-> u, errors |-> <<>>]
        ELSE CheckIdle

\* username().pending()
UsernamePending == usernameCheck.status = "loading"

\* username().errors()
UsernameErrors == UsernameSyncErrors(profileModel.username) \o usernameCheck.errors

\* username().invalid()
UsernameInvalid == UsernameErrors /= <<>>

\* username().valid(): no error and no validator pending.
UsernameValid == ~UsernameInvalid /\ ~UsernamePending

\* usernameAvailable: the condition of the '<username> is available' line.
usernameAvailable == ~UsernamePending /\ UsernameValid

\* profileForm().invalid()
ProfileFormInvalid ==
    \/ UsernameInvalid
    \/ DisplayNameErrors(profileModel.displayName) /= <<>>
    \/ BioErrors(profileModel.bio) /= <<>>

ProfileFieldSet == {"username", "displayName", "bio"}

ProfileInputs(f) ==
    CASE f = "username" -> UsernameInputs
      [] f = "displayName" -> DisplayNameInputs
      [] f = "bio" -> BioInputs

ProfileInit ==
    /\ profileModel = [username |-> <<>>, displayName |-> <<>>, bio |-> <<>>]
    /\ profileTouched = [f \in ProfileFieldSet |-> FALSE]
    /\ profileSubmitted = <<>>
    /\ usernameCheck = CheckIdle

\* The username input changes: the request of the resource changes with it.
ProfileSetUsername(u) ==
    /\ u /= profileModel.username
    /\ profileModel' = [profileModel EXCEPT !.username = u]
    /\ usernameCheck' = CheckFor(u)
    /\ UNCHANGED <<profileTouched, profileSubmitted>>
    /\ UNCHANGED notProfile

ProfileSetOther(f, v) ==
    /\ f \in {"displayName", "bio"}
    /\ v /= profileModel[f]
    /\ profileModel' = [profileModel EXCEPT ![f] = v]
    /\ UNCHANGED <<profileTouched, profileSubmitted, usernameCheck>>
    /\ UNCHANGED notProfile

ProfileBlur(f) ==
    /\ ~profileTouched[f]
    /\ profileTouched' = [profileTouched EXCEPT ![f] = TRUE]
    /\ UNCHANGED <<profileModel, profileSubmitted, usernameCheck>>
    /\ UNCHANGED notProfile

\* The endpoint answers the request in flight.
CheckResponds ==
    /\ usernameCheck.status = "loading"
    /\ LET response == CheckUsernameHandler(usernameCheck.username)
       IN  usernameCheck' =
               IF response.status = HttpOk
                   THEN [usernameCheck EXCEPT !.status = "resolved",
                                              !.errors = onSuccess(response)]
                   ELSE [usernameCheck EXCEPT !.status = "error", !.errors = onError]
    /\ UNCHANGED <<profileModel, profileTouched, profileSubmitted>>
    /\ UNCHANGED notProfile

\* The request in flight fails on the network.
CheckFails ==
    /\ usernameCheck.status = "loading"
    /\ usernameCheck' = [usernameCheck EXCEPT !.status = "error", !.errors = onError]
    /\ UNCHANGED <<profileModel, profileTouched, profileSubmitted>>
    /\ UNCHANGED notProfile

\* onSubmit: submit() marks every field touched and runs the action unless
\* the form is invalid.
ProfileOnSubmit ==
    /\ profileTouched' = [f \in ProfileFieldSet |-> TRUE]
    /\ profileSubmitted' =
          IF ProfileFormInvalid THEN profileSubmitted ELSE <<profileModel>>
    /\ UNCHANGED <<profileModel, usernameCheck>>
    /\ UNCHANGED notProfile

ProfileNext ==
    \/ \E u \in UsernameInputs : ProfileSetUsername(u)
    \/ \E f \in {"displayName", "bio"} : \E v \in ProfileInputs(f) : ProfileSetOther(f, v)
    \/ \E f \in ProfileFieldSet : ProfileBlur(f)
    \/ CheckResponds
    \/ CheckFails
    \/ ProfileOnSubmit

(***************************************************************************)
(* examples/settings.ts                                                    *)
(*                                                                         *)
(* dirty() of a field is set by a change made through its bound control,   *)
(* dirty() of the form is the disjunction over its fields, and             *)
(* reset(value) clears touched and dirty of every field and sets the value.*)
(***************************************************************************)
DEFAULT_SETTINGS ==
    [language |-> "ja", emailNotifications |-> TRUE, pageSize |-> "25"]

SettingsFieldSet == {"language", "emailNotifications", "pageSize"}

LanguageOptions == {"ja", "en", "zh"}

PageSizeOptions == {"10", "25", "50"}

SettingsNone == [f \in SettingsFieldSet |-> FALSE]

SettingsAll == [f \in SettingsFieldSet |-> TRUE]

\* settingsForm.X().dirty() and the field-modified class of its wrapper.
SettingsFieldDirty(f) == settingsDirty[f]

SettingsFormDirtyLanguageOnly == settingsDirty["language"]

\* settingsForm().dirty()
SettingsFormDirty == \E f \in SettingsFieldSet : SettingsFieldDirty(f)

\* @if (settingsForm().dirty()) <span>Unsaved changes</span>
UnsavedChangesShown == SettingsFormDirty

\* <button [disabled]="!settingsForm().dirty()">Reset to Default</button>
ResetDisabled == ~SettingsFormDirty

\* required(schema.language): every option of the select is non-empty.
SettingsFormInvalid == settingsModel.language = ""

SettingsInit ==
    /\ settingsModel = DEFAULT_SETTINGS
    /\ settingsDirty = SettingsNone
    /\ settingsTouched = SettingsNone
    /\ settingsSubmitted = FALSE

\* A change event of a select: the user picked another option.
SettingsSelect(f, options) ==
    \E v \in options :
        /\ v # settingsModel[f]
        /\ settingsModel' = [settingsModel EXCEPT ![f] = v]
        /\ settingsDirty' = [settingsDirty EXCEPT ![f] = TRUE]
        /\ UNCHANGED <<settingsTouched, settingsSubmitted>>
        /\ UNCHANGED notSettings

SettingsSelectLanguage == SettingsSelect("language", LanguageOptions)

SettingsSelectPageSize == SettingsSelect("pageSize", PageSizeOptions)

\* A click on the checkbox toggles it.
SettingsToggleNotifications ==
    /\ settingsModel' = [settingsModel EXCEPT
           !.emailNotifications = ~settingsModel.emailNotifications]
    /\ settingsDirty' = [settingsDirty EXCEPT !["emailNotifications"] = TRUE]
    /\ UNCHANGED <<settingsTouched, settingsSubmitted>>
    /\ UNCHANGED notSettings

SettingsBlur ==
    \E f \in SettingsFieldSet :
        /\ ~settingsTouched[f]
        /\ settingsTouched' = [settingsTouched EXCEPT ![f] = TRUE]
        /\ UNCHANGED <<settingsModel, settingsDirty, settingsSubmitted>>
        /\ UNCHANGED notSettings

\* onSubmit: submit() marks every field touched and runs the action unless
\* the form is invalid.
SettingsOnSubmit ==
    /\ settingsTouched' = SettingsAll
    /\ settingsSubmitted' = (IF SettingsFormInvalid THEN settingsSubmitted ELSE TRUE)
    /\ UNCHANGED <<settingsModel, settingsDirty>>
    /\ UNCHANGED notSettings

resetDirtyKept(dirty) == dirty

\* FieldState.reset(): dirty of the fields after a reset.
resetDirty(dirty) == SettingsNone

\* onReset, reachable through the Reset button while it is enabled.
SettingsOnReset ==
    /\ ~ResetDisabled
    /\ settingsModel' = DEFAULT_SETTINGS
    /\ settingsDirty' = resetDirty(settingsDirty)
    /\ settingsTouched' = SettingsNone
    /\ settingsSubmitted' = FALSE
    /\ UNCHANGED notSettings

SettingsNext ==
    \/ SettingsSelectLanguage
    \/ SettingsSelectPageSize
    \/ SettingsToggleNotifications
    \/ SettingsBlur
    \/ SettingsOnSubmit
    \/ SettingsOnReset

(***************************************************************************)
(* examples/checkout.ts: ExpiryDateInput                                   *)
(*                                                                         *)
(* value is the model() bound from outside; month and year are linked      *)
(* signals: each holds what was last set locally until value changes, and  *)
(* is then computed again from value.                                      *)
(***************************************************************************)
Digits == {"0", "1", "2", "3", "4", "5", "6", "7", "8", "9"}

Slash == "/"

\* The characters an input event can carry (two digits and a non-digit, the
\* separator itself) and the digits a bound value is made of, in this model.
ExpiryRawChars == {"1", "7", Slash}

ExpiryDigitChars == {"0", "1", "7"}

ExpiryRawInputs == SeqsUpTo(ExpiryRawChars, MaxRawLen)

ExpiryParts == SeqsUpTo(ExpiryDigitChars, 2)

includes(s, c) == \E i \in 1..Len(s) : s[i] = c

\* String.prototype.split('/')
RECURSIVE split(_)
split(s) ==
    IF ~includes(s, Slash) THEN <<s>>
    ELSE LET i == CHOOSE k \in 1..Len(s) :
                      s[k] = Slash /\ \A j \in 1..(k - 1) : s[j] # Slash
         IN <<SubSeq(s, 1, i - 1)>> \o split(SubSeq(s, i + 1, Len(s)))

parseMonth(expiryDate) ==
    IF includes(expiryDate, Slash) THEN split(expiryDate)[1] ELSE <<>>

parseYear(expiryDate) ==
    IF includes(expiryDate, Slash) THEN split(expiryDate)[2] ELSE <<>>

formatExpiryDateNoSlash(month, year) == month \o year

formatExpiryDate(month, year) == month \o <<Slash>> \o year

replaceNonDigitsNone(s) == s

\* .replace(/\D/g, '')
replaceNonDigits(s) == SelectSeq(s, LAMBDA c : c \in Digits)

\* .slice(0, 2)
slice2(s) == SubSeq(s, 1, IF Len(s) < 2 THEN Len(s) ELSE 2)

\* A linked signal after value went from old to new: computed again when
\* value changed, what was set locally otherwise.
linkedSignal(local, old, new, computed) ==
    IF new # old THEN computed ELSE local

\* Values the binding can write: every MM/YY of the model's digits, the
\* empty string, a string without separator and one with two separators.
ExpiryBoundValues ==
    {formatExpiryDate(m, y) : m \in ExpiryParts, y \in ExpiryParts}
        \cup {<<>>, <<"1", "0">>, <<"1", Slash, "0", Slash, "7">>}

ExpiryInit ==
    /\ expiryValue = <<>>
    /\ expiryMonth = parseMonth(<<>>)
    /\ expiryYear = parseYear(<<>>)

\* updateValue() after the local month and year are m and y.
updateValue(m, y) ==
    LET v == formatExpiryDate(m, y) IN
    /\ expiryValue' = v
    /\ expiryMonth' = linkedSignal(m, expiryValue, v, parseMonth(v))
    /\ expiryYear' = linkedSignal(y, expiryValue, v, parseYear(v))

onMonthInput(raw) ==
    /\ updateValue(slice2(replaceNonDigits(raw)), expiryYear)
    /\ UNCHANGED notExpiry

onYearInput(raw) ==
    /\ updateValue(expiryMonth, slice2(replaceNonDigits(raw)))
    /\ UNCHANGED notExpiry

ExpiryMonthInput == \E raw \in ExpiryRawInputs : onMonthInput(raw)

ExpiryYearInput == \E raw \in ExpiryRawInputs : onYearInput(raw)

\* The two-way binding writes another value from outside.
ExpiryWriteValue(v) ==
    /\ v # expiryValue
    /\ expiryValue' = v
    /\ expiryMonth' = linkedSignal(expiryMonth, expiryValue, v, parseMonth(v))
    /\ expiryYear' = linkedSignal(expiryYear, expiryValue, v, parseYear(v))
    /\ UNCHANGED notExpiry

ExpiryBindingWrite == \E v \in ExpiryBoundValues : ExpiryWriteValue(v)

ExpiryNext ==
    \/ ExpiryMonthInput
    \/ ExpiryYearInput
    \/ ExpiryBindingWrite

(***************************************************************************)
(* examples/book-review.ts: StarRating                                     *)
(***************************************************************************)
stars == 1..5

\* event.key of the key presses the handler tells apart, and one other key.
StarKeys ==
    {"ArrowRight", "ArrowUp", "ArrowLeft", "ArrowDown", "Home", "End", "a"}

\* The value onKeydown leaves, without the clamp at 5.
onKeydownUnclamped(current, key) ==
    IF key \in {"ArrowRight", "ArrowUp"} THEN current + 1
    ELSE IF key \in {"ArrowLeft", "ArrowDown"} THEN current - 1
    ELSE current

\* The value onKeydown leaves when the value was current.
onKeydown(current, key) ==
    CASE key \in {"ArrowRight", "ArrowUp"} ->
            IF current < 5 THEN current + 1 ELSE current
      [] key \in {"ArrowLeft", "ArrowDown"} ->
            IF current > 1 THEN current - 1
            ELSE IF current = 0 THEN 1
            ELSE current
      [] key = "Home" -> 1
      [] key = "End" -> 5
      [] OTHER -> current

selectStar(star) == star

StarInit ==
    /\ starValue = 0
    /\ hoveredStar = 0
    /\ starFocus = 0

StarMouseEnter ==
    \E star \in stars :
        /\ hoveredStar # star
        /\ hoveredStar' = star
        /\ UNCHANGED <<starValue, starFocus>>
        /\ UNCHANGED notStar

StarMouseLeave ==
    /\ hoveredStar # 0
    /\ hoveredStar' = 0
    /\ UNCHANGED <<starValue, starFocus>>
    /\ UNCHANGED notStar

\* A click on a star button; whether a click moves the focus to the button
\* depends on the browser.
StarClick(star) ==
    /\ starValue' = selectStar(star)
    /\ starFocus' \in {starFocus, star}
    /\ UNCHANGED hoveredStar
    /\ UNCHANGED notStar

StarClickAny == \E star \in stars : StarClick(star)

\* The focus moves to a star button, or away from the control (0).
StarMoveFocus ==
    \E target \in stars \cup {0} :
        /\ target # starFocus
        /\ starFocus' = target
        /\ UNCHANGED <<starValue, hoveredStar>>
        /\ UNCHANGED notStar

\* A key press on the focused star button.
StarKeydown(key) ==
    /\ starFocus \in stars
    /\ starValue' = onKeydown(starValue, key)
    /\ UNCHANGED <<hoveredStar, starFocus>>
    /\ UNCHANGED notStar

StarKeydownAny == \E key \in StarKeys : StarKeydown(key)

StarNext ==
    \/ StarMouseEnter
    \/ StarMouseLeave
    \/ StarClickAny
    \/ StarMoveFocus
    \/ StarKeydownAny

(***************************************************************************)
(* examples/city-search.ts and the /api/cities handler of                  *)
(* mocks/handlers.ts                                                       *)
(*                                                                         *)
(* The input writes the control value of the city field; debounce() copies *)
(* it to searchModel().city later.  suggestions is the httpResource whose   *)
(* request is computed from searchModel().city: when the request changes,   *)
(* the resource drops its value and aborts the request in flight.  An       *)
(* aborted request either never answers or answers to nobody.  The letters  *)
(* of a query are left as they are by encodeURIComponent and searchParams.  *)
(***************************************************************************)
cities ==
    << <<"T", "o", "k", "y", "o">>,
       <<"T", "o", "r", "o", "n", "t", "o">>,
       <<"T", "a", "i", "p", "e", "i">>,
       <<"T", "a", "l", "l", "i", "n", "n">>,
       <<"T", "a", "m", "p", "a">>,
       <<"O", "s", "a", "k", "a">>,
       <<"O", "s", "l", "o">>,
       <<"O", "t", "t", "a", "w", "a">>,
       <<"O", "x", "f", "o", "r", "d">>,
       <<"P", "a", "r", "i", "s">>,
       <<"P", "r", "a", "g", "u", "e">>,
       <<"P", "o", "r", "t", "l", "a", "n", "d">>,
       <<"P", "e", "r", "t", "h">>,
       <<"B", "e", "r", "l", "i", "n">>,
       <<"B", "a", "r", "c", "e", "l", "o", "n", "a">>,
       <<"B", "a", "n", "g", "k", "o", "k">>,
       <<"B", "o", "s", "t", "o", "n">>,
       <<"B", "u", "d", "a", "p", "e", "s", "t">> >>

startsWith(s, prefix) ==
    Len(prefix) <= Len(s) /\ SubSeq(s, 1, Len(prefix)) = prefix

\* http.get('/api/cities'): the JSON body answered to the query q.
CitiesHandler(q) ==
    IF Len(q) < 2 THEN <<>>
    ELSE SelectSeq(cities,
                   LAMBDA c : startsWith(toLowerCase(c), toLowerCase(q)))

\* What the user types, and the texts an input event leaves: the beginnings
\* of these words, up to MaxCityLen characters.
CityWords ==
    { <<"T", "o", "r", "o", "n", "t", "o">>, <<"o", "s", "a", "k", "a">>,
      <<"T", "O", "P">> }

CityTexts ==
    {SubSeq(w, 1, k) : w \in CityWords, k \in 0..MaxCityLen}

CityRequestAlways(q) == <<q>>

\* The request of the httpResource: <<>> is undefined, <<q>> the URL for q.
CityRequest(q) == IF Len(q) < 2 THEN <<>> ELSE <<q>>

CityAcceptsAny(r) == TRUE

\* The resource takes the answer of a request it has not aborted.
CityAccepts(r) == r.live

\* suggestions.hasValue(), suggestions.isLoading()
CityHasValue == citySuggestions # <<>>

CityIsLoading == cityStatus = "loading"

\* @if (showSuggestions() && suggestions.hasValue() && value().length > 0)
CityListShown ==
    showSuggestions /\ CityHasValue /\ Len(citySuggestions[1]) > 0

\* The options of the listbox on the page.
CityOptions ==
    IF CityListShown
    THEN {citySuggestions[1][i] : i \in 1..Len(citySuggestions[1])}
    ELSE {}

CityLive(flight) == {r \in flight : r.live}

\* The requests in flight after the live one is aborted: it is gone, or, for
\* up to MaxAborted requests, its answer is still on the way.
CityAbort(flight) ==
    LET rest == flight \ CityLive(flight)
        late == rest \cup {[r EXCEPT !.live = FALSE] : r \in CityLive(flight)}
    IN  {rest} \cup (IF Cardinality(late) <= MaxAborted THEN {late} ELSE {})

CityInit ==
    /\ cityControl = <<>>
    /\ searchCity = <<>>
    /\ showSuggestions = FALSE
    /\ cityFocused = FALSE
    /\ cityBlurTimer = FALSE
    /\ cityStatus = "idle"
    /\ citySuggestions = <<>>
    /\ cityInFlight = {}

\* searchModel().city becomes q and the resource follows its request.
CityModelSet(q) ==
    /\ searchCity' = q
    /\ IF CityRequest(q) = CityRequest(searchCity)
       THEN UNCHANGED <<cityStatus, citySuggestions, cityInFlight>>
       ELSE /\ cityStatus' = (IF CityRequest(q) = <<>> THEN "idle" ELSE "loading")
            /\ citySuggestions' = <<>>
            /\ \E flight \in CityAbort(cityInFlight) :
                 cityInFlight' = flight \cup
                    {[q |-> CityRequest(q)[i], live |-> TRUE] :
                        i \in 1..Len(CityRequest(q))}

CityFocus ==
    /\ ~cityFocused
    /\ cityFocused' = TRUE
    /\ showSuggestions' = TRUE
    /\ UNCHANGED <<cityControl, searchCity, cityBlurTimer, cityStatus,
                   citySuggestions, cityInFlight>>
    /\ UNCHANGED notCity

\* onBlur: the list is closed by a timer.
CityBlur ==
    /\ cityFocused
    /\ cityFocused' = FALSE
    /\ cityBlurTimer' = TRUE
    /\ UNCHANGED <<cityControl, searchCity, showSuggestions, cityStatus,
                   citySuggestions, cityInFlight>>
    /\ UNCHANGED notCity

CityBlurTimeout ==
    /\ cityBlurTimer
    /\ cityBlurTimer' = FALSE
    /\ showSuggestions' = FALSE
    /\ UNCHANGED <<cityControl, searchCity, cityFocused, cityStatus,
                   citySuggestions, cityInFlight>>
    /\ UNCHANGED notCity

\* An input event: the control value changes, the model waits for debounce.
CityInput ==
    \E text \in CityTexts :
        /\ cityFocused
        /\ text # cityControl
        /\ cityControl' = text
        /\ UNCHANGED <<searchCity, showSuggestions, cityFocused, cityBlurTimer,
                       cityStatus, citySuggestions, cityInFlight>>
        /\ UNCHANGED notCity

\* debounce(schema.city, 300) elapses: the control value reaches the model.
CityDebounce ==
    /\ cityControl # searchCity
    /\ CityModelSet(cityControl)
    /\ UNCHANGED <<cityControl, showSuggestions, cityFocused, cityBlurTimer>>
    /\ UNCHANGED notCity

\* selectCity, from a mousedown on an option of the list.
CitySelect ==
    \E city \in CityOptions :
        /\ CityModelSet(city)
        /\ cityControl' = city
        /\ showSuggestions' = FALSE
        /\ UNCHANGED <<cityFocused, cityBlurTimer>>
        /\ UNCHANGED notCity

\* The answer of a request in flight arrives.
CityRespond(r) ==
    /\ r \in cityInFlight
    /\ cityInFlight' = cityInFlight \ {r}
    /\ IF CityAccepts(r)
       THEN /\ cityStatus' = "resolved"
            /\ citySuggestions' = <<CitiesHandler(r.q)>>
       ELSE UNCHANGED <<cityStatus, citySuggestions>>
    /\ UNCHANGED <<cityControl, searchCity, showSuggestions, cityFocused,
                   cityBlurTimer>>
    /\ UNCHANGED notCity

CityResponds == \E r \in cityInFlight : CityRespond(r)

\* The live request fails.
CityFails ==
    \E r \in CityLive(cityInFlight) :
        /\ cityInFlight' = cityInFlight \ {r}
        /\ cityStatus' = "error"
        /\ citySuggestions' = <<>>
        /\ UNCHANGED <<cityControl, searchCity, showSuggestions, cityFocused,
                       cityBlurTimer>>
        /\ UNCHANGED notCity

CityNext ==
    \/ CityFocus
    \/ CityBlur
    \/ CityBlurTimeout
    \/ CityInput
    \/ CityDebounce
    \/ CitySelect
    \/ CityResponds
    \/ CityFails

(***************************************************************************)
(* Specifications: one per component, all starting from the constructed    *)
(* state of every component.                                               *)
(***************************************************************************)
Init ==
    /\ FeInit
    /\ SignupInit
    /\ PizzaInit
    /\ LocationInit
    /\ EventInit
    /\ ProfileInit
    /\ SettingsInit
    /\ ExpiryInit
    /\ StarInit
    /\ CityInit

FeNext == FieldErrorsCall

SpecFieldErrors == Init /\ [][FeNext]_vars

SpecSignup == Init /\ [][SignupNext]_vars

SpecPizza == Init /\ [][PizzaNext]_vars

SpecLocation == Init /\ [][LocationNext]_vars

SpecEvent == Init /\ [][EventNext]_vars

SpecProfile == Init /\ [][ProfileNext]_vars

SpecSettings == Init /\ [][SettingsNext]_vars

SpecExpiry == Init /\ [][ExpiryNext]_vars

SpecStar == Init /\ [][StarNext]_vars

SpecCity == Init /\ [][CityNext]_vars

\* The router shows one example at a time: SimpleSignup and LocationSelect
\* in one specification, each running while the other is as constructed.
FocusNext ==
    \/ (LocationInit /\ SignupNext)
    \/ (SignupInit /\ LocationNext)

SpecFocus == Init /\ [][FocusNext]_vars

Next == FeNext \/ SignupNext \/ PizzaNext \/ LocationNext \/ EventNext \/ ProfileNext \/ SettingsNext \/ ExpiryNext \/ StarNext \/ CityNext

Spec == Init /\ [][Next]_vars

(***************************************************************************)
(* Properties.                                                             *)
(***************************************************************************)

\* C1: fieldErrors returns the empty list unless the field state is both
\* touched and invalid; when it is both, the result has one string per
\* error, in the order of errors(), each the error's message or, when the
\* error carries no message, its kind.
C1_FieldErrorsContract ==
    /\ ~(feState.touched /\ feState.invalid) => feResult = <<>>
    /\ (feState.touched /\ feState.invalid) =>
          /\ Len(feResult) = Len(feState.errors)
          /\ \A i \in 1..Len(feState.errors) :
                feResult[i] = IF feState.errors[i].message = <<>>
                                 THEN feState.errors[i].kind
                                 ELSE feState.errors[i].message[1]

\* C1 witness: a touched, invalid field with a message-less error followed
\* by an error with a message has been mapped to <<kind, message>>.
C1_Witness ==
    /\ feState.touched /\ feState.invalid
    /\ Len(feState.errors) = 2
    /\ feState.errors[1].message = <<>>
    /\ feState.errors[2].message = <<"Email is required">>
    /\ feResult = <<feState.errors[1].kind, "Email is required">>

C2_Pre ==
    /\ signupModel.email /= <<>>
    /\ EmailWellFormed(signupModel.email)
    /\ signupModel.password /= <<>>
    /\ signupModel.confirmPassword /= <<>>
    /\ signupModel.confirmPassword = signupModel.password

\* C2: submitted changes only by becoming true in a submit performed while
\* email is non-empty and well-formed, password is non-empty and
\* confirmPassword is non-empty and equal to password; a submit in any other
\* state leaves submitted unchanged.
C2_SubmittedOnlyByValidSubmit ==
    [][/\ submitted' /= submitted => (SignupOnSubmit /\ C2_Pre /\ submitted')
       /\ (SignupOnSubmit /\ ~C2_Pre) => submitted' = submitted
       /\ (SignupOnSubmit /\ C2_Pre) => submitted']_vars

\* C2 witness: a submit of a complete, matching form has set the flag.
C2_Witness ==
    /\ submitted
    /\ C2_Pre
    /\ signupActive = "button"
    /\ \A f \in SignupFieldSet : signupTouched[f]

C3_Pre ==
    /\ orderModel.customerName /= <<>>
    /\ orderModel.paymentMethod /= ""
    /\ orderModel.orderType = "delivery" => orderModel.deliveryAddress /= <<>>

\* C3: a PizzaOrder submit sets submittedValue to the current model exactly
\* when customerName and paymentMethod are non-empty and, under orderType
\* 'delivery', deliveryAddress is non-empty; under 'togo' the address plays
\* no part.  Nothing but a submit changes submittedValue.
C3_OrderRecordedIffComplete ==
    [][/\ PizzaOnSubmit =>
             orderSubmitted' = IF C3_Pre THEN <<orderModel>> ELSE orderSubmitted
       /\ orderSubmitted' /= orderSubmitted => (PizzaOnSubmit /\ C3_Pre)]_vars

\* C3 witness: a to-go order was recorded although its address is empty.
C3_Witness ==
    /\ orderSubmitted /= <<>>
    /\ orderSubmitted[1].orderType = "togo"
    /\ orderSubmitted[1].deliveryAddress = <<>>
    /\ orderSubmitted[1].customerName /= <<>>
    /\ orderSubmitted[1].paymentMethod = "cash"

\* C4: in every state the deliveryAddress field is hidden exactly when
\* orderType is 'togo' and visible exactly when it is 'delivery'; once change
\* detection has run, the address input is rendered exactly under 'delivery'.
C4_AddressHiddenIffTogo ==
    /\ orderModel.orderType \in OrderTypes
    /\ PizzaAddressHidden(orderModel) <=> orderModel.orderType = "togo"
    /\ ~PizzaAddressHidden(orderModel) <=> orderModel.orderType = "delivery"
    /\ ~orderDirty => (orderView.addressShown <=> orderModel.orderType = "delivery")

\* C4 witness: the order type went to delivery and back to togo (the address
\* typed in between is still in the model) and the field is hidden again.
C4_Witness ==
    /\ orderModel.orderType = "togo"
    /\ orderModel.deliveryAddress /= <<>>
    /\ PizzaAddressHidden(orderModel)
    /\ ~orderDirty
    /\ ~orderView.addressShown

\* C5: the effect leaves paymentMethod = 'card' whenever it runs under
\* orderType 'delivery', whatever the method was; in every state where the
\* effect has settled, orderType = 'delivery' implies paymentMethod = 'card'.
C5_DeliveryPinsCard ==
    /\ []((~orderDirty /\ orderModel.orderType = "delivery")
              => orderModel.paymentMethod = "card")
    /\ [][(PizzaTick /\ orderModel.orderType = "delivery")
              => orderModel'.paymentMethod = "card"]_vars

\* C5 witness: the effect has settled under delivery with card selected, and
\* the order recorded before the switch shows that the method was cash.
C5_Witness ==
    /\ ~orderDirty
    /\ orderModel.orderType = "delivery"
    /\ orderModel.paymentMethod = "card"
    /\ orderSubmitted /= <<>>
    /\ orderSubmitted[1].paymentMethod = "cash"

\* C6: changing the region leaves the chosen region in the model and sets
\* country and city to ''; changing the country leaves region unchanged,
\* leaves the chosen country in the model and sets city to ''.
C6_CascadeReset ==
    [][/\ \A r \in AllLocationIds :
             LocationSelectRegion(r) =>
                 locationModel' = [region |-> r, country |-> "", city |-> ""]
       /\ \A c \in AllLocationIds :
             LocationSelectCountry(c) =>
                 locationModel' =
                     [region |-> locationModel.region, country |-> c, city |-> ""]
       /\ locationModel'.region /= locationModel.region =>
             (locationModel'.country = "" /\ locationModel'.city = "")
       /\ locationModel'.country /= locationModel.country =>
             locationModel'.city = ""]_vars

\* C6 witness: Asia / Japan / Tokyo was selected (and submitted), then the
\* region was changed to Europe: country and city are empty again.
C6_Witness ==
    /\ locationSubmitted = <<[region |-> "asia", country |-> "japan", city |-> "tokyo"]>>
    /\ locationModel = [region |-> "europe", country |-> "", city |-> ""]

\* C7: the participants list starts with exactly one entry and, under add,
\* edit and the remove offered only on more than one row, is never empty.
C7_NeverEmpty ==
    /\ Len(participants) = 1
    /\ [](Len(participants) >= 1)

\* C7 witness: two filled rows were submitted and one of them was removed
\* afterwards, leaving a single row, on which remove is no longer offered.
C7_Witness ==
    /\ eventSubmitted /= <<>>
    /\ Len(eventSubmitted[1]) = 2
    /\ Len(participants) = 1
    /\ ~RemoveOffered(participants)

\* C8: addParticipant appends exactly one empty entry and leaves the
\* existing entries unchanged; removeParticipant(i) removes exactly the entry
\* at index i and keeps the others in their previous relative order.
C8_AddRemoveFrame ==
    [][/\ EventAddParticipant =>
             /\ Len(participants') = Len(participants) + 1
             /\ participants'[Len(participants')] = <<>>
             /\ \A j \in Indices(participants) : participants'[j] = participants[j]
       /\ \A i \in 1..MaxParticipants :
             EventClickRemove(i) =>
                 /\ Len(participants') = Len(participants) - 1
                 /\ \A j \in 1..(i - 1) : participants'[j] = participants[j]
                 /\ \A j \in i..Len(participants') : participants'[j] = participants[j + 1]
       /\ Len(participants') > Len(participants) => EventAddParticipant
       /\ Len(participants') < Len(participants) =>
             \E i \in 1..MaxParticipants : EventClickRemove(i)]_vars

\* C8 witness: from the submitted rows <<"a", "aa">> the first was removed
\* and an empty row was added behind the remaining one.
C8_Witness ==
    /\ eventSubmitted = << << <<"a">>, <<"a", "a">> >> >>
    /\ participants = << <<"a", "a">>, <<>> >>

\* C9: a submit records the registration exactly when every entry is
\* non-empty at that moment, the recorded list is the list at the submit (so
\* its count is the list's length), and nothing else changes the record.
C9_RegistrationIffAllNamed ==
    [][/\ EventOnSubmit =>
             eventSubmitted' =
                 IF \A i \in Indices(participants) : participants[i] /= <<>>
                     THEN <<participants>>
                     ELSE eventSubmitted
       /\ eventSubmitted' /= eventSubmitted =>
             /\ EventOnSubmit
             /\ \A i \in Indices(participants) : participants[i] /= <<>>
             /\ Len(eventSubmitted'[1]) = Len(participants)]_vars

\* C9 witness: three named participants are recorded, and a later submit
\* with an empty second row (its first row still named) has left the record
\* untouched.
C9_Witness ==
    /\ eventSubmitted /= <<>>
    /\ Len(eventSubmitted[1]) = 3
    /\ Len(participants) = 2
    /\ participants[1] /= <<>>
    /\ participants[2] = <<>>
    /\ participantTouched = <<TRUE, TRUE>>

\* C10: the '<username> is available' line is shown exactly when the
\* username field is valid and no availability check is pending; it is never
\* shown while a check is in flight, never for a username the endpoint
\* reports as taken, and only for a username whose check has answered.
C10_AvailableIffCheckedFree ==
    /\ usernameAvailable <=>
          /\ UsernameSyncErrors(profileModel.username) = <<>>
          /\ usernameCheck.errors = <<>>
          /\ usernameCheck.status /= "loading"
    /\ usernameCheck.status = "loading" => ~usernameAvailable
    /\ toLowerCase(profileModel.username) \in existingUsernames => ~usernameAvailable
    /\ usernameAvailable =>
          /\ usernameCheck.status = "resolved"
          /\ usernameCheck.username = profileModel.username
          /\ CheckUsernameHandler(profileModel.username) =
                 [status |-> HttpOk, taken |-> FALSE]

\* C10 witness: the check of "Admin" has answered taken, so the field is
\* invalid, nothing is pending and the line is not shown.
C10_Witness ==
    /\ profileModel.username = <<"A", "d", "m", "i", "n">>
    /\ usernameCheck.status = "resolved"
    /\ usernameCheck.errors /= <<>>
    /\ ~usernameAvailable

\* C10, second witness state: the line is shown for a free username.
C10_WitnessShown ==
    /\ profileModel.username = <<"n", "e", "o">>
    /\ usernameAvailable

\* The availability check of the current username has answered taken = true.
C11_ReportedTaken ==
    /\ usernameCheck.status = "resolved"
    /\ usernameCheck.username = profileModel.username
    /\ CheckUsernameHandler(usernameCheck.username).taken

\* The availability check of the current username has failed.
C11_RequestFailed ==
    /\ usernameCheck.status = "error"
    /\ usernameCheck.username = profileModel.username

Kinds(errors) == {errors[i].kind : i \in 1..Len(errors)}

\* C11: once the availability check of the current username has reported
\* taken = true or has failed, the username field carries 'usernameTaken' or
\* 'networkError' respectively and is invalid, and a submit in such a state
\* leaves submittedValue unchanged.
C11_NoProfileWhenTakenOrFailed ==
    /\ [](/\ C11_ReportedTaken =>
                ("usernameTaken" \in Kinds(UsernameErrors) /\ UsernameInvalid)
          /\ C11_RequestFailed =>
                ("networkError" \in Kinds(UsernameErrors) /\ UsernameInvalid))
    /\ [][(ProfileOnSubmit /\ (C11_ReportedTaken \/ C11_RequestFailed))
              => profileSubmitted' = profileSubmitted]_vars

\* C11 witness: the request for "neo" failed; display name and bio are valid,
\* every field is touched as a submit leaves them, and nothing is recorded.
C11_Witness ==
    /\ profileModel.username = <<"n", "e", "o">>
    /\ C11_RequestFailed
    /\ profileModel.displayName = <<"N", "e", "o">>
    /\ profileModel.bio = <<>>
    /\ \A f \in ProfileFieldSet : profileTouched[f]
    /\ profileSubmitted = <<>>

\* A username that passes required, minLength(3), maxLength(20) and the
\* pattern, stated on the text itself.
C19_SyncValid(u) ==
    /\ u /= <<>>
    /\ Len(u) >= 3
    /\ Len(u) <= 20
    /\ \A i \in 1..Len(u) : u[i] \in WordChars

\* C19: a request to /api/check-username is issued, is in flight or has
\* answered only for a username that is non-empty, 3 to 20 characters long
\* and made of letters, digits and underscores; while the current username is
\* not of that shape the resource has no request at all.
C19_RequestOnlyWhenSyncValid ==
    /\ [](/\ usernameCheck.status /= "idle" =>
                (C19_SyncValid(usernameCheck.username)
                 /\ usernameCheck.username = profileModel.username)
          /\ ~C19_SyncValid(profileModel.username) => usernameCheck = CheckIdle)
    /\ [][(usernameCheck'.status = "loading" /\ usernameCheck' /= usernameCheck)
              => (C19_SyncValid(profileModel'.username)
                  /\ usernameCheck'.username = profileModel'.username)]_vars

\* C19 witness: a request for "neo" had answered and the user then entered
\* the 21-character name: the resource is idle, no request was made.
C19_Witness ==
    /\ profileModel.username = Rep("u", MaxUsernameLen + 1)
    /\ usernameCheck = CheckIdle
    /\ profileSubmitted /= <<>>
    /\ profileSubmitted[1].username = <<"n", "e", "o">>

\* The element a SimpleSignup submit must leave focused: the first of email,
\* password, confirmPassword that is invalid, else the element `from` that
\* had the focus when the handler started.
C17_SignupTarget(from) ==
    IF signupModel.email = <<>> \/ ~EmailWellFormed(signupModel.email) THEN "email"
    ELSE IF signupModel.password = <<>> THEN "password"
    ELSE IF signupModel.confirmPassword = <<>>
            \/ signupModel.confirmPassword /= signupModel.password THEN "confirmPassword"
    ELSE from

C17_LocationTarget(from) ==
    IF locationModel.region = "" THEN "region"
    ELSE IF locationModel.country = "" THEN "country"
    ELSE IF locationModel.city = "" THEN "city"
    ELSE from

\* C17: a SimpleSignup submit moves the focus to the first invalid field in
\* the order email, password, confirmPassword and, when all three are valid,
\* focuses no field (the focus stays where the submit came from);
\* LocationSelect does the same in the order region, country, city.
C17_FocusFirstInvalid ==
    [][/\ SignupClickSubmit => signupActive' = C17_SignupTarget("button")
       /\ SignupEnterSubmit => signupActive' = C17_SignupTarget(signupActive)
       /\ LocationOnSubmit => locationActive' = C17_LocationTarget("button")]_vars

\* C17 witness: email and password are valid, the confirmation differs, and
\* the submit has put the focus on confirmPassword.
C17_Witness ==
    /\ EmailWellFormed(signupModel.email)
    /\ signupModel.password = <<"p">>
    /\ signupModel.confirmPassword = <<"p", "p">>
    /\ \A f \in SignupFieldSet : signupTouched[f]
    /\ signupActive = "confirmPassword"

\* C17, the same case in LocationSelect: region chosen, country missing.
C17_WitnessLocation ==
    /\ locationModel.region = "asia"
    /\ locationModel.country = ""
    /\ \A f \in LocationFieldSet : locationTouched[f]
    /\ locationActive = "country"

\* C12: in Settings the form is not dirty initially; a change of any field
\* makes that field and the form dirty; in every state the Reset to Default
\* button is enabled exactly when some field is dirty and the Unsaved
\* changes message is shown exactly when some field is dirty.
C12_AnyDirty == \E f \in SettingsFieldSet : settingsDirty[f]

C12_DirtyState ==
    /\ ~SettingsFormDirty
    /\ [](/\ ~ResetDisabled <=> C12_AnyDirty
          /\ UnsavedChangesShown <=> C12_AnyDirty
          /\ SettingsFormDirty <=> C12_AnyDirty)
    /\ [][/\ SettingsSelectLanguage =>
                (SettingsFieldDirty("language"))' /\ SettingsFormDirty'
          /\ SettingsSelectPageSize =>
                (SettingsFieldDirty("pageSize"))' /\ SettingsFormDirty'
          /\ SettingsToggleNotifications =>
                (SettingsFieldDirty("emailNotifications"))' /\ SettingsFormDirty'
         ]_vars

C12_Witness ==
    /\ settingsDirty["pageSize"]
    /\ ~settingsDirty["language"]
    /\ ~settingsDirty["emailNotifications"]
    /\ settingsModel.pageSize = "50"
    /\ ~ResetDisabled
    /\ UnsavedChangesShown

\* C13: in Settings, after any edits and saves, onReset sets language,
\* emailNotifications and pageSize back to 'ja', true and '25', clears the
\* dirty flag of every field and of the form, and sets submitted to false.
C13_ResetRestoresDefaults ==
    [][SettingsOnReset =>
        /\ settingsModel'.language = "ja"
        /\ settingsModel'.emailNotifications = TRUE
        /\ settingsModel'.pageSize = "25"
        /\ \A f \in SettingsFieldSet : ~settingsDirty'[f]
        /\ ~SettingsFormDirty'
        /\ settingsSubmitted' = FALSE]_vars

\* Every field edited away from its default and saved, Reset on offer.
C13_Witness ==
    /\ settingsModel.language # "ja"
    /\ settingsModel.emailNotifications = FALSE
    /\ settingsModel.pageSize # "25"
    /\ \A f \in SettingsFieldSet : settingsDirty[f]
    /\ settingsSubmitted
    /\ ENABLED SettingsOnReset

\* C14: in ExpiryDateInput, after any month or year input event the bound
\* value is month + '/' + year, where the part the event was on is the
\* event's text with every non-digit removed, cut to 2 characters, and the
\* other part is unchanged.
C14_Cleaned(raw) ==
    LET digits == SelectSeq(raw, LAMBDA c : c \in Digits)
    IN  [i \in 1..(IF Len(digits) > 2 THEN 2 ELSE Len(digits)) |-> digits[i]]

C14_ValueFollowsInput ==
    [][\A raw \in ExpiryRawInputs :
        /\ onMonthInput(raw) =>
            /\ expiryMonth' = C14_Cleaned(raw)
            /\ expiryYear' = expiryYear
            /\ expiryValue' = expiryMonth' \o <<"/">> \o expiryYear'
        /\ onYearInput(raw) =>
            /\ expiryYear' = C14_Cleaned(raw)
            /\ expiryMonth' = expiryMonth
            /\ expiryValue' = expiryMonth' \o <<"/">> \o expiryYear'
      ]_vars

\* Both parts entered by input events.
C14_Witness ==
    /\ expiryValue = <<"7", "1", "/", "1", "7">>
    /\ expiryMonth = <<"7", "1">>
    /\ expiryYear = <<"1", "7">>
    /\ \E raw \in ExpiryRawInputs :
          Len(raw) > 2 /\ includes(raw, Slash) /\ C14_Cleaned(raw) = expiryMonth

\* C15: in ExpiryDateInput the two directions agree: when the bound value is
\* set from outside to MM/YY the parts become MM and YY whatever was entered
\* before, and parseMonth and parseYear of formatExpiryDate(m, y) are m and y
\* for all digit strings m and y of at most 2 characters.
C15_TwoWaySync ==
    /\ [](\A m \in ExpiryParts, y \in ExpiryParts :
            /\ parseMonth(formatExpiryDate(m, y)) = m
            /\ parseYear(formatExpiryDate(m, y)) = y)
    /\ [][\A m \in ExpiryParts, y \in ExpiryParts :
            ExpiryWriteValue(m \o <<"/">> \o y) =>
                expiryMonth' = m /\ expiryYear' = y]_vars

\* Parts entered locally, and a different MM/YY about to come from outside.
C15_Witness ==
    /\ expiryMonth = <<"7", "1">>
    /\ expiryYear = <<"7">>
    /\ expiryValue = formatExpiryDate(expiryMonth, expiryYear)
    /\ ENABLED ExpiryWriteValue(<<"1", "0", "/", "1", "7">>)

\* C16: in StarRating, ArrowRight or ArrowUp raises the value by one when it
\* is below 5 and leaves 5 unchanged; ArrowLeft or ArrowDown lowers it by one
\* when it is above 1 and leaves 1 unchanged; Home sets 1 and End sets 5;
\* starting from 0, after any star clicks and key presses the value is an
\* integer in 0..5.
C16_KeyboardContract ==
    /\ starValue = 0
    /\ [](starValue \in 0..5)
    /\ [][/\ \A key \in {"ArrowRight", "ArrowUp"} : StarKeydown(key) =>
                /\ starValue < 5 => starValue' = starValue + 1
                /\ starValue = 5 => starValue' = 5
          /\ \A key \in {"ArrowLeft", "ArrowDown"} : StarKeydown(key) =>
                /\ starValue > 1 => starValue' = starValue - 1
                /\ starValue = 1 => starValue' = 1
          /\ StarKeydown("Home") => starValue' = 1
          /\ StarKeydown("End") => starValue' = 5
         ]_vars

\* The value at the top with a star button focused: ArrowRight is on offer
\* and must leave it.
C16_Witness ==
    /\ starValue = 5
    /\ starFocus = 2
    /\ ENABLED StarKeydown("ArrowRight")

\* C18: in CitySearch a suggestions request is issued only while the city
\* value has at least 2 characters; for a shorter value no request is made
\* and no suggestion list is shown; the mock endpoint answers a query of
\* fewer than 2 characters with the empty list and any other query with
\* exactly the cities whose name starts with the query, ignoring case.
C18_SameLetter(a, b) ==
    \/ a = b
    \/ {a, b} \in {{"T", "t"}, {"O", "o"}, {"P", "p"}, {"B", "b"}}

C18_StartsWithIgnoringCase(c, q) ==
    /\ Len(q) <= Len(c)
    /\ \A i \in 1..Len(q) : C18_SameLetter(c[i], q[i])

C18_Queries == CityTexts \cup {cities[i] : i \in 1..Len(cities)}

C18_EndpointAnswers ==
    \A q \in C18_Queries :
        /\ Len(q) < 2 => CitiesHandler(q) = <<>>
        /\ Len(q) >= 2 =>
             CitiesHandler(q) =
                SelectSeq(cities, LAMBDA c : C18_StartsWithIgnoringCase(c, q))

C18_RequestOnlyFromTwoChars ==
    /\ [](/\ CityLive(cityInFlight) # {} => Len(searchCity) >= 2
          /\ Len(searchCity) < 2 =>
                /\ CityLive(cityInFlight) = {}
                /\ ~CityIsLoading
                /\ ~CityListShown
          /\ C18_EndpointAnswers)
    /\ [][\A r \in cityInFlight' \ cityInFlight :
            r.live => Len(searchCity') >= 2 /\ r.q = searchCity']_vars

\* The value went back under 2 characters while the list was open and a
\* request was out: the list is gone and only the aborted request remains.
C18_Witness ==
    /\ Len(searchCity) = 1
    /\ showSuggestions
    /\ cityInFlight # {}
    /\ \A r \in cityInFlight : ~r.live /\ Len(CitiesHandler(r.q)) > 1

\* C20: in CitySearch, when the city value changes while a suggestions
\* request is in flight the earlier request is cancelled: what the resource
\* holds and the list shows is always the answer to the query of the current
\* value, and the answer of an earlier request that arrives later changes
\* nothing.
C20_OnlyLatestAnswerShown ==
    /\ [](/\ CityHasValue =>
                /\ Len(searchCity) >= 2
                /\ citySuggestions = <<CitiesHandler(searchCity)>>
          /\ \A city \in CityOptions :
                \E i \in 1..Len(CitiesHandler(searchCity)) :
                    CitiesHandler(searchCity)[i] = city
          /\ Cardinality(CityLive(cityInFlight)) <= 1
          /\ \A r \in CityLive(cityInFlight) : r.q = searchCity)
    /\ [][\A r \in cityInFlight :
            (CityRespond(r) /\ ~r.live) =>
                UNCHANGED <<cityStatus, citySuggestions, searchCity>>]_vars

\* The list of the current query is shown while the answer of an aborted
\* request for another query, with other cities, is still on the way.
C20_Witness ==
    /\ CityListShown
    /\ \E r \in cityInFlight :
          /\ ~r.live
          /\ r.q # searchCity
          /\ Len(CitiesHandler(r.q)) > 0
          /\ CitiesHandler(r.q) # CitiesHandler(searchCity)

\* C21: in EventRegistration, after removeParticipant(i) each remaining row
\* shows the touched flag and the error list that belonged to that same
\* participant before the removal, not those of the participant that
\* occupied its new index before.
C21_RowBefore(i, j) == IF j < i THEN j ELSE j + 1

C21_FieldStateFollowsParticipant ==
    [][\A i \in 1..MaxParticipants :
        EventClickRemove(i) =>
            \A j \in Indices(participants') :
                /\ participantTouched'[j] = participantTouched[C21_RowBefore(i, j)]
                /\ participantErrors(participants', participantTouched')[j] =
                      participantErrors(participants, participantTouched)
                          [C21_RowBefore(i, j)]
      ]_vars

====
